---- MODULE Spec2Model ----
(***************************************************************************)
(* A model of spf.net.resources (src/src/net/resources.js): loading,       *)
(* unloading, ignoring and prefetching script and style resources.         *)
(*                                                                         *)
(* The document is a sequence of element handles in document order; every  *)
(* element ever created by load keeps its record in els, attached or not,  *)
(* because its completion hook (a closure over the element and over the    *)
(* snapshot of stale elements) stays callable after the element has been   *)
(* removed.  Timers set by setTimeout(fn, 0) run in FIFO order.            *)
(***************************************************************************)
EXTENDS Integers, Sequences, FiniteSets, TLC

\* Bounds of the model.
MaxEls == 2        \* elements created, in the main document by load and
                   \* in the prefetch iframes by prefetch, taken together
MaxCalls == 2      \* load calls that carry a callback
MaxSignals == 2    \* load signals the engine delivers to one element

\* Inputs.  The (type, url) pairs the calls are made with: two scripts, one
\* style and one resource of an unsupported type ("img" stands for every
\* type other than 'js' and 'css'); urls are strings given as sequences of
\* char codes ("a", "b").  The names passed to load; "" is no name.
Resources == {<<"js", <<97>>>>, <<"js", <<98>>>>, <<"css", <<97>>>>,
              <<"img", <<97>>>>}
Names == {"", "main"}

VARIABLES
  els,        \* handle -> element created by load_ for the main document
  head,       \* handles attached to the main document, in document order
  subs,       \* spf.pubsub: topic (element id) -> callbacks, in order
  timers,     \* setTimeout(fn, 0) tasks not yet run, FIFO
  iframes,    \* types whose prefetch iframe exists in the main document
  iframeDoc,  \* type -> ids of the elements in that iframe's document
  reg,        \* history: callback token -> the load call that passed it
  log,        \* history: callback invocations, in order
  cancelled,  \* history: tokens whose (type, url) was ignored or unloaded
              \*          after their registration, by a call or by unload_
  rejected    \* history: a call with an unsupported type has been made

vars == <<els, head, subs, timers, iframes, iframeDoc, reg, log,
          cancelled, rejected>>

base == <<els, head, subs, timers, iframes, iframeDoc, reg, log>>

Range(s) == {s[i] : i \in 1..Len(s)}

----------------------------------------------------------------------------
\* External collaborators.

\* spf.string.hashCode: result = 31 * result + charCode, reduced modulo
\* 0x100000000 after every character.  The 32-bit result is kept as its two
\* 16-bit halves <<high, low>>.
Half == 65536

RECURSIVE hashFrom(_, _)
hashFrom(str, acc) ==
  IF str = <<>> THEN acc
  ELSE LET low == 31 * acc[2] + Head(str)
           high == 31 * acc[1] + (low \div Half)
       IN hashFrom(Tail(str), <<high % Half, low % Half>>)

hashCode(str) == hashFrom(str, <<0, 0>>)

\* spf.pubsub.subscribe / publish / clear on the topic table s.  publish
\* yields the callbacks it runs, in registration order.
subscribe(s, id, fn) == [s EXCEPT ![id] = Append(@, fn)]

published(s, id) == s[id]

clear(s, id) == [s EXCEPT ![id] = <<>>]

----------------------------------------------------------------------------
\* Helpers of the resource functions.

validTypeAny(type) == TRUE

\* type != 'js' && type != 'css' is the rejection test of every entry point.
validType(type) == type = "js" \/ type = "css"

\* id = type + '-' + spf.string.hashCode(url), computed once for each
\* resource of the model.
IdTable == [r \in Resources |-> <<r[1], hashCode(r[2])>>]

Id(type, url) == IdTable[<<type, url>>]

Ids == {Id(r[1], r[2]) : r \in {x \in Resources : validType(x[1])}}

\* tag = (type == 'js') ? 'script' : 'link'
Tag(type) == IF type = "js" THEN "script" ELSE "link"

\* document.getElementById on the main document: the first attached element
\* with the id, 0 for null.
getElementById(id) ==
  LET m == SelectSeq(head, LAMBDA h : els[h].id = id)
  IN IF m = <<>> THEN 0 ELSE Head(m)

isLoadedNever(el) == FALSE

\* isLoaded = el && spf.dom.dataset.get(el, 'loaded')
isLoaded(el) == el # 0 /\ els[el].loaded

isLoadingNever(el) == FALSE

\* isLoading = el && !isLoaded
isLoading(el) == el # 0 /\ ~isLoaded(el)

\* spf.dom.query(tag + '.' + cls): attached elements of the tag bearing the
\* class, in document order; [] when no name is given.
elsToRemove(type, cls) ==
  IF cls = "" THEN <<>>
  ELSE SelectSeq(head, LAMBDA h : els[h].tag = Tag(type) /\ els[h].cls = cls)

insertAlone(h, type, doc) == <<h>>

\* targetEl.insertBefore(el, targetEl.firstChild) for scripts,
\* targetEl.appendChild(el) for styles.
insert(h, type, doc) == IF type = "js" THEN <<h>> \o doc ELSE Append(doc, h)

removeChild(doc, h) == SelectSeq(doc, LAMBDA x : x # h)

attached(doc, h) == h \in Range(doc)

subsAfterLoadAlways(s, id, loaded, cb, tok) ==
  IF cb THEN subscribe(s, id, tok) ELSE s

\* The topic table after lines 56-65 of load: nothing is subscribed when the
\* resource is already loaded, the callback otherwise.
subsAfterLoad(s, id, loaded, cb, tok) ==
  IF loaded THEN s
  ELSE IF cb THEN subscribe(s, id, tok) ELSE s

RECURSIVE unloadKeepTopics(_, _, _)
unloadKeepTopics(rm, s, doc) ==
  IF rm = <<>> THEN [subs |-> s, head |-> doc, ok |-> TRUE]
  ELSE IF ~attached(doc, Head(rm))
       THEN [subs |-> s, head |-> doc, ok |-> FALSE]
       ELSE unloadKeepTopics(Tail(rm), s, removeChild(doc, Head(rm)))

\* The elements of rm whose topic unload_ clears: all of them up to and
\* including the first detached one.
RECURSIVE cleared(_, _)
cleared(rm, doc) ==
  IF rm = <<>> THEN {}
  ELSE IF ~attached(doc, Head(rm)) THEN {Head(rm)}
       ELSE {Head(rm)} \cup cleared(Tail(rm), removeChild(doc, Head(rm)))

\* spf.net.resources.unload_: for each element, clear its topic, then
\* detach it from its parent.  A detached element has a null parentNode,
\* so removeChild on it throws and the loop stops there (ok = FALSE).
RECURSIVE unload_(_, _, _)
unload_(rm, s, doc) ==
  IF rm = <<>> THEN [subs |-> s, head |-> doc, ok |-> TRUE]
  ELSE LET s1 == clear(s, els[Head(rm)].id)
       IN IF ~attached(doc, Head(rm))
          THEN [subs |-> s1, head |-> doc, ok |-> FALSE]
          ELSE unload_(Tail(rm), s1, removeChild(doc, Head(rm)))

ignoreKeep(s, id) == s

\* The topic table after spf.net.resources.ignore.
ignoreSubs(s, id) == clear(s, id)

----------------------------------------------------------------------------
NoUrl == <<>>

HookTask(h) == [kind |-> "hook", el |-> h, type |-> "", url |-> NoUrl]

PrefetchTask(type, url) ==
  [kind |-> "prefetch", el |-> 0, type |-> type, url |-> url]

\* Tokens registered for the (type, url) of id.
TokensOf(id) == {c \in 1..Len(reg) : reg[c].id = id}

Init ==
  /\ els = <<>>
  /\ head = <<>>
  /\ subs = [i \in Ids |-> <<>>]
  /\ timers = <<>>
  /\ iframes = {}
  /\ iframeDoc = [t \in {"js", "css"} |-> <<>>]
  /\ reg = <<>>
  /\ log = <<>>
  /\ cancelled = {}
  /\ rejected = FALSE

\* Elements created so far, or about to be created by a prefetch timer.
Created ==
  Len(els) + Len(SelectSeq(timers, LAMBDA t : t.kind = "prefetch"))
    + Len(iframeDoc["js"]) + Len(iframeDoc["css"])

\* A call with an unsupported type returns at once.
Reject ==
  /\ rejected' = TRUE
  /\ UNCHANGED <<els, head, subs, timers, iframes, iframeDoc, reg, log,
                 cancelled>>

\* The value load returns: null (0) for an unsupported type, the existing
\* element when there is one, the newly created element otherwise.
LoadReturn(type, url) ==
  IF ~validType(type) THEN 0
  ELSE IF getElementById(Id(type, url)) # 0
       THEN getElementById(Id(type, url))
       ELSE Len(els) + 1

\* spf.net.resources.load(type, url, opt_callback, opt_name); cb says
\* whether a callback is passed, and the callback is the next token.
Load(type, url, cb, name) ==
  IF ~validType(type)
  THEN Reject
  ELSE
    LET id == Id(type, url)
        el == getElementById(id)
        tok == Len(reg) + 1
        new == Len(els) + 1
        create == ~isLoaded(el) /\ ~isLoading(el)
    IN /\ cb => Len(reg) < MaxCalls
       /\ create => Created < MaxEls
       /\ reg' = IF cb
                 THEN Append(reg, [id |-> id,
                                   el |-> IF create THEN new ELSE el])
                 ELSE reg
       /\ log' = IF isLoaded(el) /\ cb
                 THEN Append(log, [cb |-> tok, by |-> 0])
                 ELSE log
       /\ subs' = subsAfterLoad(subs, id, isLoaded(el), cb, tok)
       /\ IF create
          THEN /\ els' = Append(els, [id |-> id, type |-> type,
                                      tag |-> Tag(type), cls |-> name,
                                      loaded |-> FALSE, sig |-> 0,
                                      rm |-> elsToRemove(type, name)])
               /\ head' = insert(new, type, head)
          ELSE UNCHANGED <<els, head>>
       /\ UNCHANGED <<timers, iframes, iframeDoc, cancelled, rejected>>

UnloadDetachOnly(type, url) ==
  IF ~validType(type)
  THEN Reject
  ELSE /\ UNCHANGED <<els, subs, timers, iframes, iframeDoc, reg, log,
                      rejected>>
       /\ cancelled' = cancelled \cup TokensOf(Id(type, url))
       /\ head' = removeChild(head, getElementById(Id(type, url)))

\* spf.net.resources.unload(type, url)
Unload(type, url) ==
  IF ~validType(type)
  THEN Reject
  ELSE
    LET id == Id(type, url)
        el == getElementById(id)
        u == unload_(<<el>>, subs, head)
    IN /\ UNCHANGED <<els, timers, iframes, iframeDoc, reg, log, rejected>>
       /\ cancelled' = cancelled \cup TokensOf(id)
       /\ IF el # 0
          THEN /\ subs' = u.subs
               /\ head' = u.head
          ELSE UNCHANGED <<subs, head>>

\* spf.net.resources.ignore(type, url)
Ignore(type, url) ==
  IF ~validType(type)
  THEN Reject
  ELSE /\ UNCHANGED <<els, head, timers, iframes, iframeDoc, reg, log,
                      rejected>>
       /\ cancelled' = cancelled \cup TokensOf(Id(type, url))
       /\ subs' = ignoreSubs(subs, Id(type, url))

\* spf.net.resources.prefetch(type, url), up to the setTimeout.
Prefetch(type, url) ==
  IF ~validType(type)
  THEN Reject
  ELSE IF \/ getElementById(Id(type, url)) # 0
          \/ (type \in iframes /\ Id(type, url) \in Range(iframeDoc[type]))
       THEN UNCHANGED vars
       ELSE /\ Created < MaxEls
            /\ iframes' = iframes \cup {type}
            /\ timers' = Append(timers, PrefetchTask(type, url))
            /\ UNCHANGED <<els, head, subs, iframeDoc, reg, log,
                           cancelled, rejected>>

\* el.onload of a main-document element: setTimeout(fn, 0).  The engine may
\* deliver it to an element that has been removed since its fetch started.
OnLoad(h) ==
  /\ h \in 1..Len(els)
  /\ els[h].sig < MaxSignals
  /\ els' = [els EXCEPT ![h].sig = @ + 1]
  /\ timers' = Append(timers, HookTask(h))
  /\ UNCHANGED <<head, subs, iframes, iframeDoc, reg, log,
                 cancelled, rejected>>

\* el.onreadystatechange: forwards to el.onload when readyState is 'loaded'
\* or 'complete'.
OnReadyStateChange(h, readyState) ==
  /\ h \in 1..Len(els)
  /\ IF readyState \in {"loaded", "complete"}
     THEN OnLoad(h)
     ELSE UNCHANGED vars

HookUnguarded(h) ==
  LET u == unload_(els[h].rm, subs, head)
      ran == published(u.subs, els[h].id)
  IN /\ els' = [els EXCEPT ![h].loaded = TRUE]
     /\ head' = u.head
     /\ subs' = IF u.ok THEN clear(u.subs, els[h].id) ELSE u.subs
     /\ log' = IF u.ok
               THEN log \o [i \in 1..Len(ran) |-> [cb |-> ran[i], by |-> h]]
               ELSE log
     /\ cancelled' = cancelled \cup
          UNION {TokensOf(els[x].id) : x \in cleared(els[h].rm, head)}

\* The completion hook that load passes to load_ (lines 75-85), run from
\* its timer.
Hook(h) ==
  IF els[h].loaded
  THEN UNCHANGED <<els, head, subs, log, cancelled>>
  ELSE LET u == unload_(els[h].rm, subs, head)
           ran == published(u.subs, els[h].id)
       IN /\ els' = [els EXCEPT ![h].loaded = TRUE]
          /\ head' = u.head
          /\ subs' = IF u.ok THEN clear(u.subs, els[h].id) ELSE u.subs
          /\ log' = IF u.ok
                    THEN log \o [i \in 1..Len(ran) |-> [cb |-> ran[i], by |-> h]]
                    ELSE log
          /\ cancelled' = cancelled \cup
               UNION {TokensOf(els[x].id) : x \in cleared(els[h].rm, head)}

PrefetchDeferredClearing(type, url) ==
  /\ iframeDoc' = [iframeDoc EXCEPT ![type] = Append(@, Id(type, url))]
  /\ subs' = clear(subs, Id(type, url))
  /\ UNCHANGED <<els, head, log, cancelled>>

\* The deferred part of prefetch (lines 239-260): an <object> placeholder
\* for scripts, load_ with no completion hook for styles; either way one
\* element with the id is added to the iframe's document.
PrefetchDeferred(type, url) ==
  /\ iframeDoc' = [iframeDoc EXCEPT ![type] = Append(@, Id(type, url))]
  /\ UNCHANGED <<els, head, subs, log, cancelled>>

\* The next timer fires.
Tick ==
  /\ timers # <<>>
  /\ timers' = Tail(timers)
  /\ IF Head(timers).kind = "hook"
     THEN Hook(Head(timers).el) /\ UNCHANGED iframeDoc
     ELSE PrefetchDeferred(Head(timers).type, Head(timers).url)
  /\ UNCHANGED <<iframes, reg, rejected>>

Next ==
  \/ \E r \in Resources, cb \in BOOLEAN, n \in Names : Load(r[1], r[2], cb, n)
  \/ \E r \in Resources : Unload(r[1], r[2])
  \/ \E r \in Resources : Ignore(r[1], r[2])
  \/ \E r \in Resources : Prefetch(r[1], r[2])
  \/ \E h \in 1..MaxEls : OnLoad(h)
  \/ \E h \in 1..MaxEls, rs \in {"loading", "loaded", "complete"} :
       OnReadyStateChange(h, rs)
  \/ Tick

Spec == Init /\ [][Next]_vars

\* The engine signals the load of every element at least once, and every
\* timer set by setTimeout(fn, 0) fires.
FirstSignal(h) == h \in 1..Len(els) /\ els[h].sig = 0 /\ OnLoad(h)

FairSpec ==
  Spec /\ WF_vars(Tick) /\ \A h \in 1..MaxEls : WF_vars(FirstSignal(h))

----------------------------------------------------------------------------
\* Vocabulary of the properties.

Tokens == 1..Len(reg)

\* How many times callback c is invoked in the log l.
CountIn(l, c) == Cardinality({i \in 1..Len(l) : l[i].cb = c})

Count(c) == CountIn(log, c)

Ran(c) == Count(c) > 0

\* The elements of the main document that carry the id.
ElementsOf(id) == {i \in 1..Len(head) : els[head[i]].id = id}

\* This step runs the completion hook of element h from its timer.
HookRuns(h) ==
  /\ timers # <<>>
  /\ Head(timers).el = h
  /\ timers' = Tail(timers)

\* This step detects the load completion of element h: its hook runs and
\* finds the element not yet marked.
Completes(h) == HookRuns(h) /\ ~els[h].loaded

\* The elements of the main document with the tag and name tag of h.
Generation(doc, h) ==
  {x \in Range(doc) : els[x].tag = els[h].tag /\ els[x].cls = els[h].cls}

\* A callback whose topic was cleared by ignore, unload or unload_ after
\* its registration is not invoked in this step.
CancelledStaySilent ==
  log' # log
    => \A c \in Tokens : c \in cancelled => CountIn(log', c) = CountIn(log, c)

ValidResources == {r \in Resources : r[1] \in {"js", "css"}}

----------------------------------------------------------------------------
\* C1. At most one element: in every reachable state the main document
\* holds zero or one element for each identity (type, url), and no element
\* is in the document twice; a load for an identity whose element is
\* present never inserts a second one.
C1_AtMostOneElement ==
  /\ \A id \in Ids : Cardinality(ElementsOf(id)) <= 1
  /\ Cardinality(Range(head)) = Len(head)

\* Load calls were made for the identity of the one element of the
\* document, with a callback that ran at its completion and with one that
\* ran at once because it was loaded, and the element is still there.
C1_Witness ==
  \E id \in Ids :
    /\ Cardinality(ElementsOf(id)) = 1
    /\ Len(els) = 1 /\ els[1].loaded
    /\ \E i \in 1..Len(log) : log[i].by = 1
    /\ \E i \in 1..Len(log) : log[i].by = 0

\* C2. Callback never twice: a callback passed to one load call is invoked
\* at most once, whatever the interleaving of calls, duplicate completion
\* signals and completions of removed elements.
C2_CallbackAtMostOnce == \A c \in Tokens : Count(c) <= 1

\* A callback has run at the completion of an element whose load was
\* signalled twice and whose two hooks have both run, and the completion
\* hook of a removed element has run as well.
C2_Witness ==
  /\ timers = <<>>
  /\ \E h \in 1..Len(els) :
        /\ els[h].sig = MaxSignals
        /\ \E i \in 1..Len(log) : log[i].by = h
  /\ \E h \in 1..Len(els) : els[h].loaded /\ ~attached(head, h)

\* C3. Callback never zero times: when every element's load is signalled
\* and every timer fires, a callback passed to load is eventually invoked,
\* unless its (type, url) is ignored or unloaded after the registration
\* (an unload by unload_ on behalf of a same-named load counts as one).
C3_CallbackEventuallyRuns ==
  \A c \in 1..MaxCalls : (c \in Tokens) ~> (Ran(c) \/ c \in cancelled)

\* C4. Callback ordering: a callback run by a completion hook runs only
\* once the completion of the element that was in the document for its
\* identity at registration time has been detected, and the callbacks run
\* by one completion run in registration order.
C4_CallbackOrdering ==
  /\ \A i \in 1..Len(log) :
        log[i].by # 0 => els[reg[log[i].cb].el].loaded
  /\ \A i, j \in 1..Len(log) :
        (i < j /\ log[i].by # 0 /\ log[i].by = log[j].by)
          => log[i].cb < log[j].cb

\* C5. At most one generation per name: right after the step that detects
\* the completion of a load with a non-empty name, at most one element of
\* that type bears the name's tag in the document.
C5_OneGenerationPerName ==
  [][\A h \in 1..MaxEls :
       (Completes(h) /\ els[h].cls # "")
         => Cardinality(Generation(head', h)) <= 1]_vars

\* C6. Named swap: once the completion of a load that found same-named
\* elements in the document has been detected, none of those elements is
\* left in the document and the callback passed with that load has run
\* exactly once (its own resource not having been ignored or unloaded).
C6_NamedSwap ==
  \A c \in Tokens :
    (els[reg[c].el].rm # <<>> /\ els[reg[c].el].loaded /\ c \notin cancelled)
      => /\ \A x \in Range(els[reg[c].el].rm) : ~attached(head, x)
         /\ Count(c) = 1

\* C7. Completion step order: a step that detects a completion and invokes
\* callbacks leaves the element marked and every element of its snapshot
\* out of the document, and every step that detects a completion ends
\* with the identity's topic empty.
C7_CompletionStepOrder ==
  [][\A h \in 1..MaxEls :
       Completes(h)
         => /\ log' # log
                 => /\ els'[h].loaded
                    /\ \A x \in Range(els[h].rm) : ~attached(head', x)
            /\ subs'[els[h].id] = <<>>]_vars

\* C8. Ignore suppresses: ignore on a loading identity empties its topic
\* and leaves the elements, their name tags and markers as they are; the
\* callbacks dropped are never invoked afterwards; and the step that
\* detects an element's completion marks it loaded.
C8_IgnoreSuppresses ==
  [][/\ \A r \in ValidResources :
          (Ignore(r[1], r[2]) /\ isLoading(getElementById(Id(r[1], r[2]))))
            => /\ subs'[Id(r[1], r[2])] = <<>>
               /\ UNCHANGED <<els, head>>
     /\ CancelledStaySilent
     /\ \A h \in 1..MaxEls : Completes(h) => els'[h].loaded]_vars

\* A callback was pending when its identity was ignored; the element is
\* still in the document, has been marked loaded since, and the callback
\* has not run.
C8_Witness ==
  \E c \in Tokens :
    /\ c \in cancelled /\ ~Ran(c)
    /\ Len(els) = 1
    /\ attached(head, reg[c].el) /\ els[reg[c].el].loaded

\* C9. Unload removes and suppresses: unload of a present identity takes
\* its element out of the document and empties its topic; the callbacks
\* dropped are never invoked afterwards, also when the removed element's
\* completion is detected later; unload of an absent identity changes
\* nothing.
C9_UnloadRemoves ==
  [][/\ \A r \in ValidResources :
          Unload(r[1], r[2])
            => IF getElementById(Id(r[1], r[2])) # 0
               THEN /\ ~attached(head', getElementById(Id(r[1], r[2])))
                    /\ subs'[Id(r[1], r[2])] = <<>>
                    /\ els' = els
               ELSE UNCHANGED base
     /\ CancelledStaySilent]_vars

\* A callback was pending when its identity was unloaded; the completion
\* of the removed element has been detected since, and the callback has
\* not run.
C9_Witness ==
  \E c \in Tokens :
    /\ c \in cancelled /\ ~Ran(c)
    /\ Len(els) = 1
    /\ ~attached(head, reg[c].el) /\ els[reg[c].el].loaded

\* C10. Invalid type is a silent no-op: for a type other than 'js' and
\* 'css', load returns null, and load, unload, ignore and prefetch leave
\* the elements, markers, topics, timers, prefetch iframes and the record
\* of callbacks registered and invoked unchanged.
C10_InvalidTypeNoOp ==
  /\ [](\A r \in Resources \ ValidResources : LoadReturn(r[1], r[2]) = 0)
  /\ [][\A r \in Resources \ ValidResources :
          (\/ \E cb \in BOOLEAN, n \in Names : Load(r[1], r[2], cb, n)
           \/ Unload(r[1], r[2])
           \/ Ignore(r[1], r[2])
           \/ Prefetch(r[1], r[2]))
            => UNCHANGED <<base, cancelled>>]_vars

\* A call with an unsupported type was made in a state with an element, a
\* pending callback, a pending timer and a prefetch iframe.
C10_Witness ==
  /\ rejected
  /\ head # <<>>
  /\ \E id \in Ids : subs[id] # <<>>
  /\ timers # <<>>
  /\ iframes # {}

\* Vocabulary of the prefetch properties.

\* A prefetch of the identity has been requested: its deferred part is
\* pending or its placeholder is in the iframe's document.
PrefetchRequested(id) ==
  \/ id \in Range(iframeDoc[id[1]])
  \/ \E i \in 1..Len(timers) :
        /\ timers[i].kind = "prefetch"
        /\ Id(timers[i].type, timers[i].url) = id

\* Element h is the only element load ever created for its identity, and
\* its load found no same-named element to replace.
OnlyElement(h) ==
  /\ els[h].rm = <<>>
  /\ \A x \in 1..Len(els) : x # h => els[x].id # els[h].id

\* This step runs the deferred part of a prefetch from its timer.
PrefetchRuns ==
  /\ timers # <<>>
  /\ Head(timers).kind = "prefetch"
  /\ timers' = Tail(timers)

\* C11. Prefetch non-interference: when a prefetch of an identity and a
\* load of it with a callback have been made and that load's element is the
\* only one ever created for the identity, the document holds at most one
\* element of the identity, the callback has run at most once, has not run
\* before the element's completion was detected, and has run exactly once
\* after it (unless ignored or unloaded); and neither the prefetch call nor
\* its deferred part changes the elements, the document, the markers, the
\* topics or the record of callbacks registered and invoked.
C11_PrefetchNonInterference ==
  /\ [](\A c \in Tokens :
          (PrefetchRequested(reg[c].id) /\ OnlyElement(reg[c].el))
            => /\ Cardinality(ElementsOf(reg[c].id)) <= 1
               /\ Count(c) <= 1
               /\ Ran(c) => els[reg[c].el].loaded
               /\ (els[reg[c].el].loaded /\ c \notin cancelled)
                     => Count(c) = 1)
  /\ [][/\ PrefetchRuns => UNCHANGED <<els, head, subs, reg, log>>
        /\ \A r \in ValidResources :
             Prefetch(r[1], r[2]) => UNCHANGED <<els, head, subs, reg, log>>]_vars

\* A prefetch and a load with a callback were made for one identity; the
\* placeholder is in the iframe's document, the element is in the main
\* document and the callback has run at its completion.
C11_Witness ==
  \E c \in Tokens :
    /\ reg[c].id \in Range(iframeDoc[reg[c].id[1]])
    /\ attached(head, reg[c].el)
    /\ \E i \in 1..Len(log) : log[i].cb = c /\ log[i].by = reg[c].el

\* Vocabulary of the load properties.

\* This step is a load call for the resource r that creates an element or
\* is passed a callback (any other load call changes nothing).
LoadStep(r) ==
  /\ Len(els') > Len(els) \/ Len(reg') > Len(reg)
  /\ \E cb \in BOOLEAN, n \in Names : Load(r[1], r[2], cb, n)

\* This step leaves identity j as it is: its topic, the markers of its
\* elements and their presence in the document, and it creates no element
\* of j.
Untouched(j) ==
  /\ subs'[j] = subs[j]
  /\ \A x \in 1..Len(els) :
        els[x].id = j => /\ els'[x].loaded = els[x].loaded
                         /\ attached(head', x) <=> attached(head, x)
  /\ \A x \in 1..Len(els') : x > Len(els) => els'[x].id # j

\* The identities of the elements in the stale snapshot of element h.
SnapshotIds(h) == {els[x].id : x \in Range(els[h].rm)}

\* C12. Identity isolation, as stated: a load call for one identity, and a
\* run of the completion hook of that load's element, leave every other
\* identity untouched.
C12_IdentityIsolation ==
  [][/\ \A r \in ValidResources :
          LoadStep(r) => \A j \in Ids \ {Id(r[1], r[2])} : Untouched(j)
     /\ \A h \in 1..MaxEls :
          HookRuns(h) => \A j \in Ids \ {els[h].id} : Untouched(j)]_vars

\* C12, amended: a load call for one identity leaves every other identity
\* untouched, and a run of the completion hook of that load's element
\* leaves untouched every identity other than its own and those of the
\* elements in its stale snapshot.
C12_IdentityIsolationAmended ==
  [][/\ \A r \in ValidResources :
          LoadStep(r) => \A j \in Ids \ {Id(r[1], r[2])} : Untouched(j)
     /\ \A h \in 1..MaxEls :
          HookRuns(h)
            => \A j \in Ids \ ({els[h].id} \cup SnapshotIds(h)) :
                 Untouched(j)]_vars

\* The completion of one identity's load has been detected and its
\* callback has run, while the element of another identity, loaded after
\* it, is still in the document, unmarked, with its callback pending.
C12_Witness ==
  \E h, x \in 1..Len(els) :
    /\ h < x /\ els[h].id # els[x].id
    /\ els[h].loaded
    /\ \E i \in 1..Len(log) : log[i].by = h
    /\ attached(head, x) /\ ~els[x].loaded
    /\ subs[els[x].id] # <<>>

\* C13. Load on a present identity is idempotent on the document: a load
\* call for an identity whose element is in the document, loading or
\* loaded, whatever the name passed, leaves every element record (marker,
\* name tag, stale snapshot), the document and the timers as they are and
\* returns the existing element; and once the completion of an element has
\* been detected, any two callbacks passed for it before that completion
\* (and not ignored or unloaded since) have run exactly once each, both at
\* that completion.
C13_LoadPresentIdempotent ==
  /\ [](\A c1, c2 \in Tokens :
          (/\ c1 # c2 /\ reg[c1].el = reg[c2].el
           /\ els[reg[c1].el].loaded
           /\ \A i \in 1..Len(log) : log[i].cb \in {c1, c2} => log[i].by # 0
           /\ c1 \notin cancelled /\ c2 \notin cancelled)
            => \A c \in {c1, c2} :
                 /\ Count(c) = 1
                 /\ \A i \in 1..Len(log) :
                      log[i].cb = c => log[i].by = reg[c].el)
  /\ [][\A r \in ValidResources :
          (LoadStep(r) /\ getElementById(Id(r[1], r[2])) # 0)
            => /\ UNCHANGED <<els, head, timers>>
               /\ LoadReturn(r[1], r[2]) = getElementById(Id(r[1], r[2]))]_vars

\* Callback c is invoked in this step.
RunsNow(c) == CountIn(log', c) > CountIn(log, c)

\* The element of the resource r is in the document and bears the marker.
PresentAndMarked(r) ==
  /\ getElementById(Id(r[1], r[2])) # 0
  /\ els[getElementById(Id(r[1], r[2]))].loaded

\* C14. Synchronous/asynchronous asymmetry: a load call that passes a
\* callback invokes it within the call exactly when the identity's element
\* is in the document and marked loaded, and then leaves the topics as they
\* are; otherwise the call invokes no callback and leaves its own pending;
\* a load signal of the engine invokes no callback; and every other
\* invocation happens in a step that runs a timer.
C14_SyncAsyncAsymmetry ==
  [][/\ \A r \in ValidResources :
          (Len(reg') > Len(reg) /\ LoadStep(r))
            => IF PresentAndMarked(r)
               THEN /\ log' = Append(log, [cb |-> Len(reg'), by |-> 0])
                    /\ subs' = subs
               ELSE /\ log' = log
                    /\ Len(reg') \in Range(subs'[Id(r[1], r[2])])
     /\ \A h \in 1..MaxEls : OnLoad(h) => log' = log
     /\ log' # log
          => \/ timers # <<>> /\ timers' = Tail(timers)
             \/ Len(reg') > Len(reg) /\ Len(log') = Len(log) + 1]_vars

\* One callback was passed while the element was loading and ran at its
\* completion, from the timer; a second one was passed after the element
\* was marked and ran within the load call.
C14_Witness ==
  /\ Len(els) = 1 /\ els[1].loaded
  /\ log = <<[cb |-> 1, by |-> 1], [cb |-> 2, by |-> 0]>>

\* C15. Duplicate completion signals are absorbed: a run of the completion
\* hook of an element that already bears the marker changes nothing in the
\* elements, the document, the topics and the record of callbacks
\* registered and invoked, and a run that finds the element unmarked sets
\* the marker, so only the first run of an element's hook acts.
C15_DuplicateSignalsAbsorbed ==
  [][\A h \in 1..MaxEls :
       /\ (HookRuns(h) /\ els[h].loaded)
            => UNCHANGED <<els, head, subs, reg, log, iframes, iframeDoc>>
       /\ Completes(h) => els'[h].loaded]_vars

\* The load of an element was signalled twice and both hooks have run; the
\* element was unloaded, its identity loaded again with a callback, and
\* that callback is still pending.
C15_Witness ==
  /\ timers = <<>>
  /\ Len(els) = 2 /\ els[1].id = els[2].id
  /\ els[1].sig = MaxSignals /\ els[1].loaded
  /\ els[2].sig = 0
  /\ subs[els[2].id] # <<>>
  /\ log = <<>>

\* An element of the identity was created and is no longer in the document.
Removed(id) == \E x \in 1..Len(els) : els[x].id = id /\ ~attached(head, x)

\* C16. Removal resets the state machine: a load call for an identity that
\* has a removed element and none in the document creates one element of
\* the identity, unmarked, puts it in the document and invokes no callback;
\* the marker of an element is set only by a run of that element's own
\* hook; and a callback passed for the fresh element has run only if the
\* fresh element's own completion has been detected.
C16_RemovalResets ==
  /\ [](\A c \in Tokens :
          (\E x \in 1..Len(els) : x < reg[c].el /\ els[x].id = reg[c].id)
            => (Ran(c) => els[reg[c].el].loaded))
  /\ [][/\ \A r \in ValidResources :
             (/\ LoadStep(r)
              /\ ElementsOf(Id(r[1], r[2])) = {}
              /\ Removed(Id(r[1], r[2])))
               => /\ Len(els') = Len(els) + 1
                  /\ els'[Len(els')].id = Id(r[1], r[2])
                  /\ ~els'[Len(els')].loaded
                  /\ attached(head', Len(els'))
                  /\ \A x \in 1..Len(els) : els'[x] = els[x]
                  /\ log' = log
        /\ \A h \in 1..Len(els) :
             (~els[h].loaded /\ els'[h].loaded) => HookRuns(h)]_vars

\* C17. Prefetch dedup: the document of each prefetch iframe holds at most
\* one placeholder element per identity.
C17_PrefetchDedup ==
  \A t \in {"js", "css"} :
    Cardinality(Range(iframeDoc[t])) = Len(iframeDoc[t])

\* C18. No pending callbacks without an element: whenever the main
\* document holds no element of an identity, the identity's topic is empty.
C18_NoPendingWithoutElement ==
  \A id \in Ids : ElementsOf(id) = {} => subs[id] = <<>>

\* A callback was pending on an element that has been taken out of the
\* document since; the callback has not run, the topic is empty, and
\* another identity keeps its element and its pending callback.
C18_Witness ==
  \E c \in Tokens :
    /\ ~Ran(c)
    /\ ~attached(head, reg[c].el)
    /\ ElementsOf(reg[c].id) = {}
    /\ \E id \in Ids : ElementsOf(id) # {} /\ subs[id] # <<>>

\* C19. Late completion of a removed element is inert: a run of the
\* completion hook of an element that is not in the document leaves the
\* document as it is and invokes no callback.
C19_LateCompletionInert ==
  [][\A h \in 1..MaxEls :
       (HookRuns(h) /\ ~attached(head, h))
         => /\ head' = head
            /\ log' = log]_vars

\* C20. Bulk unload never fails: unload_ runs to its end on the element
\* that unload would hand to it, and on the stale snapshot of the element
\* whose completion the next timer is about to detect.
C20_BulkUnloadNeverFails ==
  /\ \A id \in Ids :
        getElementById(id) # 0 => unload_(<<getElementById(id)>>, subs, head).ok
  /\ (timers # <<>> /\ Head(timers).kind = "hook"
        /\ ~els[Head(timers).el].loaded)
       => unload_(els[Head(timers).el].rm, subs, head).ok

====
